---- MODULE Spec2Model ----
(***************************************************************************)
(* Model of products/models.py: the Category, Tag, Product and ProductTag  *)
(* tables with their storage constraints, and Product's two procedural     *)
(* methods, _ensure_slug/save and publish.                                 *)
(*                                                                         *)
(* A string is a sequence of one-character strings.  A Python object in    *)
(* the memory of a request ("session") is kept apart from its row in the   *)
(* store: save() and publish() change the object first and the row second, *)
(* and the row only if the storage constraints accept the write.           *)
(***************************************************************************)
EXTENDS Integers, Sequences, FiniteSets, TLC

\* ------------------------------------------------------------- bounds
NumProducts == 3      \* primary keys the Product sequence hands out
FewProducts == 2      \* products created where slug suffixes are not the subject
NumCategories == 2    \* primary keys of Category
NumTags == 1          \* primary keys of Tag
NumProductTags == 2   \* primary keys of ProductTag
MaxWeight == 1        \* largest weight a caller tries
MaxTime == 2          \* last reading of the clock

NULL == 0

ProductIds == 1..NumProducts
CategoryIds == 1..NumCategories
TagIds == 1..NumTags
ProductTagIds == 1..NumProductTags
Sessions == {1, 2}
MainSession == CHOOSE s \in Sessions : \A t \in Sessions : s <= t

\* ------------------------------------------------------------- strings
DRAFT == "draft"
PUBLISHED == "published"
ARCHIVED == "archived"
ProductStatus == {DRAFT, PUBLISHED, ARCHIVED}

Blank == << >>

Digits == <<"0", "1", "2", "3", "4", "5", "6", "7", "8", "9">>

RECURSIVE StrNat(_)
\* str(i) of a natural number, as the f-string of _ensure_slug formats it
StrNat(i) ==
    IF i < 10 THEN << Digits[i + 1] >>
    ELSE StrNat(i \div 10) \o << Digits[(i % 10) + 1] >>

\* str.lower() / the store's LOWER() on one character
LowerChar(c) ==
    CASE c = "A" -> "a"
      [] c = "B" -> "b"
      [] OTHER -> c

Lower(s) == [k \in 1..Len(s) |-> LowerChar(s[k])]

\* \w of the regular expressions of slugify
IsWordChar(c) ==
    c \in {"a", "b", "A", "B", "p", "r", "o", "d", "u", "c", "t", "_"}
        \cup {Digits[k] : k \in 1..10}

IsSpaceOrHyphen(c) == c \in {" ", "-"}

RECURSIVE CollapseRuns(_)
\* re.sub(r"[-\s]+", "-", value)
CollapseRuns(s) ==
    IF s = << >> THEN << >>
    ELSE IF IsSpaceOrHyphen(Head(s))
         THEN IF Len(s) > 1 /\ IsSpaceOrHyphen(s[2])
              THEN CollapseRuns(Tail(s))
              ELSE << "-" >> \o CollapseRuns(Tail(s))
         ELSE << Head(s) >> \o CollapseRuns(Tail(s))

RECURSIVE StripLeft(_)
StripLeft(s) ==
    IF s # << >> /\ Head(s) \in {"-", "_"} THEN StripLeft(Tail(s)) ELSE s

RECURSIVE StripRight(_)
StripRight(s) ==
    IF s # << >> /\ s[Len(s)] \in {"-", "_"}
    THEN StripRight(SubSeq(s, 1, Len(s) - 1))
    ELSE s

\* .strip("-_")
Strip(s) == StripRight(StripLeft(s))

KeepChar(c) == IsWordChar(c) \/ IsSpaceOrHyphen(c)

\* django.utils.text.slugify on ASCII input:
\*   value = re.sub(r"[^\w\s-]", "", value.lower())
\*   return re.sub(r"[-\s]+", "-", value).strip("-_")
slugify(value) == Strip(CollapseRuns(SelectSeq(Lower(value), KeepChar)))

DefaultBase == <<"p", "r", "o", "d", "u", "c", "t">>

\* ------------------------------------------------------------- inputs
\* names over the letters a and b: "A b" stands for "Red Mug", "a b" for
\* "red mug", "a-B" for "red-Mug", "a! -b" for "red! -mug"
NameRedMug == <<"A", " ", "b">>
NameRedMugLower == <<"a", " ", "b">>
NameRedHyphenMug == <<"a", "-", "B">>
NameRedBangMug == <<"a", "!", " ", "-", "b">>
NameBang == <<"!">>

NameBangBang == <<"!", "!">>

\* names with the same slugify, no two equal ignoring case
SlugNames == {NameRedMug, NameRedHyphenMug, NameRedBangMug}

\* two names equal ignoring case, and a third with the same slugify
CaseNames == {NameRedMug, NameRedMugLower, NameRedHyphenMug}

\* the empty name and names with an empty slugify
EmptyNames == {Blank, NameBang, NameBangBang}

\* names of the products that are published
PlainNames == {NameRedMug}

\* the slugs a caller sets by hand
SlugInputs == {Blank, <<"A", "-", "b">>}

\* ------------------------------------------------------------- state
VARIABLES
    categories,     \* Category table: primary key -> [parent]
    tags,           \* Tag table: the primary keys stored
    products,       \* Product table: primary key -> row
    productTags,    \* ProductTag table: primary key -> [product, tag, weight]
    nextProductId,  \* next value of the Product primary-key sequence
    inst,           \* per session, the Product object it holds in memory
    frame,          \* per session, where its save() stands and _ensure_slug's locals
    now,            \* timezone.now()
    last            \* the last call made and how it ended

vars == <<categories, tags, products, productTags, nextProductId, inst, frame,
          now, last>>

storeVars == <<categories, tags, products, productTags>>

\* Product(): the field defaults of the class
NewProduct ==
    [pk |-> NULL, name |-> Blank, slug |-> Blank, is_active |-> TRUE,
     status |-> DRAFT, published_at |-> NULL, category |-> NULL]

\* the columns written for an object
RowOf(obj) ==
    [name |-> obj.name, slug |-> obj.slug, is_active |-> obj.is_active,
     status |-> obj.status, published_at |-> obj.published_at,
     category |-> obj.category]

\* the object built from a stored row
ObjectOf(id, row) ==
    [pk |-> id, name |-> row.name, slug |-> row.slug,
     is_active |-> row.is_active, status |-> row.status,
     published_at |-> row.published_at, category |-> row.category]

IdleFrame == [pc |-> "idle", base |-> Blank, slug |-> Blank, i |-> 2]

Init ==
    /\ categories = << >>
    /\ tags = {}
    /\ products = << >>
    /\ productTags = << >>
    /\ nextProductId = 1
    /\ inst = [s \in Sessions |-> NewProduct]
    /\ frame = [s \in Sessions |-> IdleFrame]
    /\ now = 1
    /\ last = [op |-> "init", result |-> "ok", session |-> NULL,
               derived |-> FALSE, was |-> "", arg |-> << >>]

\* ------------------------------------------------------------- constraints
\* the constraint on name instead of Lower("name")
NameUniqueActiveExact(row, id, tbl) ==
    ~ (/\ row.is_active
       /\ \E q \in DOMAIN tbl \ {id} :
            tbl[q].is_active /\ tbl[q].name = row.name)

\* product_name_ci_unique_active
NameUniqueActive(row, id, tbl) ==
    ~ (/\ row.is_active
       /\ \E q \in DOMAIN tbl \ {id} :
            tbl[q].is_active /\ Lower(tbl[q].name) = Lower(row.name))

\* the table without the constraint on the slug
SlugUnconstrained(row, id, tbl) == TRUE

\* product_slug_ci_unique_active
SlugUniqueActive(row, id, tbl) ==
    ~ (/\ row.is_active
       /\ \E q \in DOMAIN tbl \ {id} :
            tbl[q].is_active /\ Lower(tbl[q].slug) = Lower(row.slug))

\* the foreign key Product.category
CategoryStored(row, cats) == row.category = NULL \/ row.category \in DOMAIN cats

\* the store accepts row as the row of primary key id
RowAccepted(row, id, tbl, cats) ==
    /\ NameUniqueActive(row, id, tbl)
    /\ SlugUniqueActive(row, id, tbl)
    /\ CategoryStored(row, cats)

\* ------------------------------------------------------------- Product methods
\* the query without its is_active=True
SlugTakenByAnyRow(slug, pk, tbl) ==
    \E q \in DOMAIN tbl : q # pk /\ tbl[q].slug = slug

\* Product.objects.filter(slug=slug, is_active=True).exclude(pk=self.pk).exists()
SlugTaken(slug, pk, tbl) ==
    \E q \in DOMAIN tbl : q # pk /\ tbl[q].slug = slug /\ tbl[q].is_active

\* slug = f"{base}-{i}"
Suffixed(base, i) == base \o << "-" >> \o StrNat(i)

RECURSIVE SlugLoop(_, _, _, _, _)
\* the while loop of _ensure_slug
SlugLoop(base, slug, i, pk, tbl) ==
    IF SlugTaken(slug, pk, tbl)
    THEN SlugLoop(base, Suffixed(base, i), i + 1, pk, tbl)
    ELSE slug

\* base = slugify(self.name) or "product"
BaseOf(name) == IF slugify(name) # Blank THEN slugify(name) ELSE DefaultBase

\* the early return without its "or not self.name"
KeepsSlugIfSet(obj) == obj.slug # Blank

\* the early return of _ensure_slug
KeepsSlug(obj) == obj.slug # Blank \/ obj.name = Blank

\* _ensure_slug without its loop
EnsureSlugUnchecked(obj, tbl) ==
    IF KeepsSlug(obj) THEN obj ELSE [obj EXCEPT !.slug = BaseOf(obj.name)]

_ensure_slug(obj, tbl) ==
    IF KeepsSlug(obj) THEN obj
    ELSE [obj EXCEPT !.slug = SlugLoop(BaseOf(obj.name), BaseOf(obj.name), 2,
                                       obj.pk, tbl)]

\* save(): the stamp of published_at
Stamp(obj, t) ==
    IF obj.status = PUBLISHED /\ obj.published_at = NULL
    THEN [obj EXCEPT !.published_at = t]
    ELSE obj

\* the object as save() hands it to super().save()
Prepared(obj, tbl, t) == Stamp(_ensure_slug(obj, tbl), t)

\* the call of save() or publish() just made: its name, how it ended, the
\* session that made it, whether _ensure_slug assigned a slug in it, and the
\* status the object had when it was called
CalledSave(op, result, s, derived) ==
    last' = [op |-> op, result |-> result, session |-> s, derived |-> derived,
             was |-> inst[s].status, arg |-> << >>]

\* a call just made outside the sessions, with its arguments
CalledWith(op, result, arg) ==
    last' = [op |-> op, result |-> result, session |-> NULL, derived |-> FALSE,
             was |-> "", arg |-> arg]

\* any other call just made
Called(op, result, s) ==
    last' = [op |-> op, result |-> result, session |-> s, derived |-> FALSE,
             was |-> "", arg |-> << >>]

\* super().save() with no update_fields: UPDATE the row of the primary key, or
\* INSERT when there is none
WriteAll(s, obj, derived) ==
    LET id == IF obj.pk # NULL THEN obj.pk ELSE nextProductId
        row == RowOf(obj)
    IN  /\ id \in ProductIds
        /\ IF RowAccepted(row, id, products, categories)
           THEN /\ products' = (id :> row) @@ products
                /\ inst' = [inst EXCEPT ![s] = [obj EXCEPT !.pk = id]]
                /\ nextProductId' =
                       IF obj.pk = NULL THEN nextProductId + 1 ELSE nextProductId
                /\ CalledSave("save", "ok", s, derived)
           ELSE /\ inst' = [inst EXCEPT ![s] = obj]
                /\ CalledSave("save", "IntegrityError", s, derived)
                /\ UNCHANGED <<products, nextProductId>>

\* the write with "published_at" missing from update_fields
WriteStatusAlone(s, obj, derived) ==
    /\ inst' = [inst EXCEPT ![s] = obj]
    /\ UNCHANGED nextProductId
    /\ IF obj.pk \in DOMAIN products
       THEN /\ products' = [products EXCEPT ![obj.pk].status = obj.status]
            /\ CalledSave("publish", "ok", s, derived)
       ELSE CalledSave("publish", "ValueError", s, derived) /\ UNCHANGED products

\* super().save(update_fields=["status", "published_at", "updated_at"])
WriteStatus(s, obj, derived) ==
    /\ inst' = [inst EXCEPT ![s] = obj]
    /\ UNCHANGED nextProductId
    /\ IF obj.pk = NULL
       THEN CalledSave("publish", "ValueError", s, derived) /\ UNCHANGED products
       ELSE IF obj.pk \notin DOMAIN products
       THEN CalledSave("publish", "DatabaseError", s, derived) /\ UNCHANGED products
       ELSE /\ products' = [products EXCEPT
                               ![obj.pk].status = obj.status,
                               ![obj.pk].published_at = obj.published_at]
            /\ CalledSave("publish", "ok", s, derived)

Idle(s) == frame[s].pc = "idle"

\* Product.save(), run without interruption
save(s) ==
    /\ Idle(s)
    /\ WriteAll(s, Prepared(inst[s], products, now), ~ KeepsSlug(inst[s]))
    /\ UNCHANGED <<categories, tags, productTags, frame, now>>

\* the assignments with the timestamp always taken anew
PublishedAnew(obj, t) == [obj EXCEPT !.status = PUBLISHED, !.published_at = t]

\* the assignments that leave an archived product alone
PublishedUnlessArchived(obj, t) ==
    IF obj.status = ARCHIVED THEN obj
    ELSE [obj EXCEPT !.status = PUBLISHED,
                     !.published_at = IF obj.published_at # NULL
                                      THEN obj.published_at ELSE t]

\* the assignments of publish()
Published(obj, t) ==
    [obj EXCEPT !.status = PUBLISHED,
                !.published_at = IF obj.published_at # NULL
                                 THEN obj.published_at ELSE t]

\* Product.publish()
publish(s) ==
    /\ Idle(s)
    /\ IF inst[s].status # PUBLISHED
       THEN WriteStatus(s, Prepared(Published(inst[s], now), products, now),
                        ~ KeepsSlug(inst[s]))
       ELSE Called("publish", "noop", s) /\ UNCHANGED <<products, nextProductId, inst>>
    /\ UNCHANGED <<categories, tags, productTags, frame, now>>

\* Product.delete(): the ProductTag rows of the product go with it (CASCADE)
DeleteProduct(s) ==
    /\ Idle(s)
    /\ IF inst[s].pk = NULL
       THEN /\ Called("delete_product", "ValueError", s)
            /\ UNCHANGED <<products, productTags, inst>>
       ELSE /\ products' = [q \in DOMAIN products \ {inst[s].pk} |-> products[q]]
            /\ productTags' = [r \in {x \in DOMAIN productTags :
                                        productTags[x].product # inst[s].pk}
                                 |-> productTags[r]]
            /\ inst' = [inst EXCEPT ![s].pk = NULL]
            /\ Called("delete_product", "ok", s)
    /\ UNCHANGED <<categories, tags, nextProductId, frame, now>>

\* ------------------------------------------------------------- callers
\* p = Product()
New(s) ==
    /\ Idle(s)
    /\ inst' = [inst EXCEPT ![s] = NewProduct]
    /\ Called("new", "ok", s)
    /\ UNCHANGED <<storeVars, nextProductId, frame, now>>

\* p = Product.objects.get(pk=id)
Get(s, id) ==
    /\ Idle(s)
    /\ id \in DOMAIN products
    /\ inst' = [inst EXCEPT ![s] = ObjectOf(id, products[id])]
    /\ Called("get", "ok", s)
    /\ UNCHANGED <<storeVars, nextProductId, frame, now>>

SetName(s, n) ==
    /\ Idle(s)
    /\ inst[s].name # n
    /\ inst' = [inst EXCEPT ![s].name = n]
    /\ Called("set", "ok", s)
    /\ UNCHANGED <<storeVars, nextProductId, frame, now>>

SetSlug(s, sl) ==
    /\ Idle(s)
    /\ inst[s].slug # sl
    /\ inst' = [inst EXCEPT ![s].slug = sl]
    /\ Called("set", "ok", s)
    /\ UNCHANGED <<storeVars, nextProductId, frame, now>>

SetActive(s, b) ==
    /\ Idle(s)
    /\ inst[s].is_active # b
    /\ inst' = [inst EXCEPT ![s].is_active = b]
    /\ Called("set", "ok", s)
    /\ UNCHANGED <<storeVars, nextProductId, frame, now>>

SetStatus(s, st) ==
    /\ Idle(s)
    /\ inst[s].status # st
    /\ inst' = [inst EXCEPT ![s].status = st]
    /\ Called("set", "ok", s)
    /\ UNCHANGED <<storeVars, nextProductId, frame, now>>

SetCategory(s, c) ==
    /\ Idle(s)
    /\ inst[s].category # c
    /\ inst' = [inst EXCEPT ![s].category = c]
    /\ Called("set", "ok", s)
    /\ UNCHANGED <<storeVars, nextProductId, frame, now>>

\* the clock moves on
Tick ==
    /\ now < MaxTime
    /\ now' = now + 1
    /\ Called("tick", "ok", NULL)
    /\ UNCHANGED <<storeVars, nextProductId, inst, frame>>

\* ------------------------------------------------------------- save(), step by step
\* save() up to the first query of _ensure_slug
SaveBegin(s) ==
    /\ Idle(s)
    /\ frame' = [frame EXCEPT ![s] =
                   IF KeepsSlug(inst[s])
                   THEN [IdleFrame EXCEPT !.pc = "write"]
                   ELSE [pc |-> "loop", base |-> BaseOf(inst[s].name),
                         slug |-> BaseOf(inst[s].name), i |-> 2]]
    /\ Called("save_begin", "ok", s)
    /\ UNCHANGED <<storeVars, nextProductId, inst, now>>

\* one test of the while condition of _ensure_slug: one query of the store
SlugQuery(s) ==
    /\ frame[s].pc = "loop"
    /\ IF SlugTaken(frame[s].slug, inst[s].pk, products)
       THEN /\ frame' = [frame EXCEPT
                           ![s].slug = Suffixed(frame[s].base, frame[s].i),
                           ![s].i = frame[s].i + 1]
            /\ UNCHANGED inst
       ELSE /\ inst' = [inst EXCEPT ![s].slug = frame[s].slug]
            /\ frame' = [frame EXCEPT ![s].pc = "write"]
    /\ Called("slug_query", "ok", s)
    /\ UNCHANGED <<storeVars, nextProductId, now>>

\* the rest of save(): the stamp and super().save()
SaveWrite(s) ==
    /\ frame[s].pc = "write"
    /\ WriteAll(s, Stamp(inst[s], now), frame[s].base # Blank)
    /\ frame' = [frame EXCEPT ![s] = IdleFrame]
    /\ UNCHANGED <<categories, tags, productTags, now>>

\* ------------------------------------------------------------- Category
\* cat_no_self_parent
NoSelfParent(c, parent) == parent # c

\* the foreign key Category.parent
ParentStored(c, parent, cats) == parent = NULL \/ parent \in DOMAIN cats \cup {c}

\* Category.save() of the category of primary key c
SaveCategory(c, parent) ==
    /\ IF NoSelfParent(c, parent) /\ ParentStored(c, parent, categories)
       THEN /\ categories' = (c :> [parent |-> parent]) @@ categories
            /\ CalledWith("save_category", "ok", <<c, parent>>)
       ELSE /\ CalledWith("save_category", "IntegrityError", <<c, parent>>)
            /\ UNCHANGED categories
    /\ UNCHANGED <<tags, products, productTags, nextProductId, inst, frame, now>>

\* the protection with Product.category left out
ProtectedByChildren(c, cats, tbl) == \E d \in DOMAIN cats : cats[d].parent = c

\* on_delete=PROTECT of Category.parent and of Product.category
Protected(c, cats, tbl) ==
    \/ \E d \in DOMAIN cats : cats[d].parent = c
    \/ \E q \in DOMAIN tbl : tbl[q].category = c

\* Category.delete()
DeleteCategory(c) ==
    /\ c \in DOMAIN categories
    /\ IF Protected(c, categories, products)
       THEN /\ CalledWith("delete_category", "ProtectedError", <<c>>)
            /\ UNCHANGED categories
       ELSE /\ categories' = [d \in DOMAIN categories \ {c} |-> categories[d]]
            /\ CalledWith("delete_category", "ok", <<c>>)
    /\ UNCHANGED <<tags, products, productTags, nextProductId, inst, frame, now>>

\* ------------------------------------------------------------- Tag, ProductTag
\* Tag.save() of a new tag
SaveTag(t) ==
    /\ t \notin tags
    /\ tags' = tags \cup {t}
    /\ CalledWith("save_tag", "ok", <<t>>)
    /\ UNCHANGED <<categories, products, productTags, nextProductId, inst, frame, now>>

\* Tag.delete(): the ProductTag rows of the tag go with it (CASCADE)
DeleteTag(t) ==
    /\ t \in tags
    /\ tags' = tags \ {t}
    /\ productTags' = [r \in {x \in DOMAIN productTags : productTags[x].tag # t}
                         |-> productTags[r]]
    /\ CalledWith("delete_tag", "ok", <<t>>)
    /\ UNCHANGED <<categories, products, nextProductId, inst, frame, now>>

\* product_tag_unique
PairUnique(row, r, tbl) ==
    ~ \E x \in DOMAIN tbl \ {r} :
        tbl[x].product = row.product /\ tbl[x].tag = row.tag

\* the check the field type makes by itself
WeightNotNegative(row) == row.weight >= 0

\* producttag_weight_gte_1
WeightPositive(row) == row.weight >= 1

\* the foreign keys ProductTag.product and ProductTag.tag
EndsStored(row, prods, tgs) == row.product \in DOMAIN prods /\ row.tag \in tgs

ProductTagAccepted(row, r, tbl, prods, tgs) ==
    /\ PairUnique(row, r, tbl)
    /\ WeightPositive(row)
    /\ EndsStored(row, prods, tgs)

\* the write of ProductTag.save()
WriteProductTag(op, r, row) ==
    /\ IF ProductTagAccepted(row, r, productTags, products, tags)
       THEN /\ productTags' = (r :> row) @@ productTags
            /\ CalledWith(op, "ok", <<row.product, row.tag, row.weight>>)
       ELSE /\ CalledWith(op, "IntegrityError",
                       <<row.product, row.tag, row.weight>>)
            /\ UNCHANGED productTags
    /\ UNCHANGED <<categories, tags, products, nextProductId, inst, frame, now>>

\* ProductTag(product=p, tag=t, weight=w).save()
InsertProductTag(p, t, w) ==
    /\ DOMAIN productTags # ProductTagIds
    /\ LET r == CHOOSE x \in ProductTagIds \ DOMAIN productTags :
                    \A y \in ProductTagIds \ DOMAIN productTags : x <= y
       IN  WriteProductTag("insert_product_tag", r,
                           [product |-> p, tag |-> t, weight |-> w])

\* save() of the stored ProductTag of primary key r, with new values
UpdateProductTag(r, p, t, w) ==
    /\ r \in DOMAIN productTags
    /\ WriteProductTag("update_product_tag", r,
                       [product |-> p, tag |-> t, weight |-> w])

\* ------------------------------------------------------------- specifications
Weights == 0..MaxWeight

\* the session saves a stored product again, or creates one of the first k
Room(s, k) == inst[s].pk # NULL \/ nextProductId <= k

\* one session saving products whose names give the same slug
Next ==
    \/ New(MainSession)
    \/ \E id \in ProductIds : Get(MainSession, id)
    \/ \E n \in SlugNames : SetName(MainSession, n)
    \/ \E sl \in SlugInputs : SetSlug(MainSession, sl)
    \/ \E b \in BOOLEAN : SetActive(MainSession, b)
    \/ save(MainSession)

Spec == Init /\ [][Next]_vars

\* one session saving and deleting products whose names are empty or
\* punctuation
NextEmpty ==
    \/ New(MainSession)
    \/ \E id \in ProductIds : Get(MainSession, id)
    \/ \E n \in EmptyNames : SetName(MainSession, n)
    \/ \E b \in BOOLEAN : SetActive(MainSession, b)
    \/ Room(MainSession, FewProducts) /\ save(MainSession)
    \/ DeleteProduct(MainSession)

SpecEmpty == Init /\ [][NextEmpty]_vars

\* one session saving and deleting products whose names differ in case
NextNames ==
    \/ New(MainSession)
    \/ \E id \in ProductIds : Get(MainSession, id)
    \/ \E n \in CaseNames : SetName(MainSession, n)
    \/ \E b \in BOOLEAN : SetActive(MainSession, b)
    \/ Room(MainSession, FewProducts) /\ save(MainSession)
    \/ DeleteProduct(MainSession)

SpecNames == Init /\ [][NextNames]_vars

\* one session moving products between the statuses while the clock runs
NextPublish ==
    \/ New(MainSession)
    \/ \E id \in ProductIds : Get(MainSession, id)
    \/ \E n \in PlainNames : SetName(MainSession, n)
    \/ \E st \in ProductStatus : SetStatus(MainSession, st)
    \/ Room(MainSession, FewProducts) /\ save(MainSession)
    \/ publish(MainSession)
    \/ DeleteProduct(MainSession)
    \/ Tick

SpecPublish == Init /\ [][NextPublish]_vars

\* categories and the products filed under them
NextRef ==
    \/ \E c \in CategoryIds, parent \in CategoryIds \cup {NULL} :
         SaveCategory(c, parent)
    \/ \E c \in CategoryIds : DeleteCategory(c)
    \/ New(MainSession)
    \/ \E id \in ProductIds : Get(MainSession, id)
    \/ \E c \in CategoryIds \cup {NULL} : SetCategory(MainSession, c)
    \/ Room(MainSession, FewProducts) /\ save(MainSession)
    \/ DeleteProduct(MainSession)

SpecRef == Init /\ [][NextRef]_vars

\* tags and the products tagged with them
NextTags ==
    \/ \E t \in TagIds : SaveTag(t)
    \/ \E t \in TagIds : DeleteTag(t)
    \/ \E p \in ProductIds, t \in TagIds, w \in Weights : InsertProductTag(p, t, w)
    \/ \E r \in ProductTagIds, p \in ProductIds, t \in TagIds, w \in Weights :
         UpdateProductTag(r, p, t, w)
    \/ New(MainSession)
    \/ \E id \in ProductIds : Get(MainSession, id)
    \/ Room(MainSession, FewProducts) /\ save(MainSession)
    \/ DeleteProduct(MainSession)

SpecTags == Init /\ [][NextTags]_vars

\* two sessions saving new active products, their queries and writes
\* interleaved; a save() starts while fewer than FewProducts were created
NextConc ==
    \E s \in Sessions :
        \/ New(s)
        \/ \E n \in SlugNames : SetName(s, n)
        \/ Room(s, FewProducts) /\ SaveBegin(s)
        \/ SlugQuery(s)
        \/ SaveWrite(s)

SpecConc == Init /\ [][NextConc]_vars

\* ------------------------------------------------------------- claims
\* the step is a call of save() by session s
SaveStep(s) == last'.op = "save" /\ last'.session = s

\* the step is a call of save() by s on an object with a blank slug and a name
SaveOfUnslugged(s) ==
    SaveStep(s) /\ inst[s].slug = Blank /\ inst[s].name # Blank

\* the stored products other than that of primary key pk
OtherRows(pk, tbl) == DOMAIN tbl \ {pk}

\* the slugs of the active products other than that of primary key pk
ActiveSlugs(pk, tbl) ==
    {tbl[q].slug : q \in {x \in OtherRows(pk, tbl) : tbl[x].is_active}}

\* C1: when save() succeeds on a product, active or not, whose slug was blank
\* and whose name is not empty, the product's slug is not empty, is the slug of
\* its stored row, and is the slug of no other stored active product; if the
\* product is active its slug also differs from theirs ignoring case.
C1_SlugNonEmptyAndUnique ==
    [][\A s \in Sessions :
         (SaveOfUnslugged(s) /\ last'.result = "ok") =>
            /\ inst'[s].slug # Blank
            /\ inst'[s].pk \in DOMAIN products'
            /\ products'[inst'[s].pk].slug = inst'[s].slug
            /\ inst'[s].slug \notin ActiveSlugs(inst'[s].pk, products')
            /\ inst'[s].is_active =>
                 Lower(inst'[s].slug) \notin
                     {Lower(x) : x \in ActiveSlugs(inst'[s].pk, products')}]_vars

\* an inactive product was saved with a derived slug, suffixed because an
\* active product holds the base
C1_Witness ==
    /\ last.op = "save" /\ last.result = "ok" /\ last.derived
    /\ ~ inst[MainSession].is_active
    /\ inst[MainSession].slug = Suffixed(BaseOf(inst[MainSession].name), 2)
    /\ BaseOf(inst[MainSession].name)
           \in ActiveSlugs(inst[MainSession].pk, products)

\* base, or base-k for the smallest k >= 2 with base-k not in taken
ExpectedSlug(base, taken) ==
    IF base \notin taken THEN base
    ELSE Suffixed(base,
                  CHOOSE k \in 2..(Cardinality(taken) + 2) :
                      /\ Suffixed(base, k) \notin taken
                      /\ \A j \in 2..(k - 1) : Suffixed(base, j) \in taken)

\* C7: save() of a product with a blank slug and a non-empty name assigns
\* base = slugify(name) when no other active product has that slug, else base-k
\* for the smallest k >= 2 that no other active product has; the slugs of
\* inactive products play no part.
C7_SmallestFreeSuffix ==
    [][\A s \in Sessions :
         (SaveOfUnslugged(s) /\ slugify(inst[s].name) # Blank) =>
            inst'[s].slug =
                ExpectedSlug(slugify(inst[s].name),
                             ActiveSlugs(inst[s].pk, products))]_vars

\* base-2 was assigned while other active products hold base and base-3
C7_Witness ==
    LET me == inst[MainSession]
        base == slugify(me.name)
    IN  /\ last.op = "save" /\ last.result = "ok" /\ last.derived
        /\ me.slug = Suffixed(base, 2)
        /\ base \in ActiveSlugs(me.pk, products)
        /\ Suffixed(base, 3) \in ActiveSlugs(me.pk, products)

\* another stored active product has the name of obj, ignoring case
NameClash(obj, tbl) ==
    /\ obj.is_active
    /\ \E q \in OtherRows(obj.pk, tbl) :
         tbl[q].is_active /\ Lower(tbl[q].name) = Lower(obj.name)

\* another stored active product has the slug of obj, ignoring case
SlugClash(obj, pk, tbl) ==
    /\ obj.is_active
    /\ Lower(obj.slug) \in {Lower(x) : x \in ActiveSlugs(pk, tbl)}

NoTwoActiveSameName(tbl) ==
    \A p, q \in DOMAIN tbl :
        (p # q /\ tbl[p].is_active /\ tbl[q].is_active) =>
            Lower(tbl[p].name) # Lower(tbl[q].name)

\* C2: save() of an active product whose name equals, ignoring case, that of
\* another stored active product ends in IntegrityError with the store as it
\* was; when the saved product is inactive, or no active stored product has the
\* name, save() fails only if the slug clashes; and no step leaves two active
\* stored products with names equal ignoring case.
C2_ActiveNamesUnique ==
    [][/\ \A s \in Sessions :
            SaveStep(s) =>
               /\ NameClash(inst[s], products) =>
                     (last'.result = "IntegrityError" /\ storeVars' = storeVars)
               /\ (~ NameClash(inst[s], products) /\ last'.result # "ok") =>
                     SlugClash(inst'[s], inst[s].pk, products)
       /\ NoTwoActiveSameName(products')]_vars

\* an active product was refused for its name alone, which differs only in
\* case from that of a stored active product, while an inactive product with
\* that name is stored
C2_Witness ==
    LET me == inst[MainSession]
    IN  /\ last.op = "save" /\ last.result = "IntegrityError"
        /\ me.is_active
        /\ ~ SlugClash(me, me.pk, products)
        /\ \E q \in DOMAIN products :
             /\ products[q].is_active
             /\ products[q].name # me.name
             /\ Lower(products[q].name) = Lower(me.name)
        /\ \E q \in DOMAIN products :
             ~ products[q].is_active /\ Lower(products[q].name) = Lower(me.name)

\* C8 as stated: save() of a product with a blank slug and an empty name
\* assigns the default base "product", suffixed as for any other base.
C8_EmptyNameGetsDefault ==
    [][\A s \in Sessions :
         (SaveStep(s) /\ inst[s].slug = Blank /\ inst[s].name = Blank) =>
            inst'[s].slug =
                ExpectedSlug(DefaultBase, ActiveSlugs(inst[s].pk, products))]_vars

\* C8 amended: save() of a product with a blank slug and an empty name leaves
\* the slug blank, in the object and in the row it writes; the default base
\* "product", suffixed as for any other base, is assigned when the name is not
\* empty and slugify(name) is.
C8_DefaultBaseForEmptySlugify ==
    [][\A s \in Sessions :
         (SaveStep(s) /\ inst[s].slug = Blank) =>
            /\ inst[s].name = Blank =>
                 /\ inst'[s].slug = Blank
                 /\ last'.result = "ok" => products'[inst'[s].pk].slug = Blank
            /\ (inst[s].name # Blank /\ slugify(inst[s].name) = Blank) =>
                 inst'[s].slug =
                     ExpectedSlug(DefaultBase,
                                  ActiveSlugs(inst[s].pk, products))]_vars

\* a product with an empty name was saved and kept its blank slug, beside a
\* product named "!" that got the slug "product"
C8_Witness ==
    LET me == inst[MainSession]
    IN  /\ last.op = "save" /\ last.result = "ok"
        /\ me.name = Blank /\ me.slug = Blank
        /\ products[me.pk].slug = Blank
        /\ \E q \in OtherRows(me.pk, products) :
             products[q].name = NameBang /\ products[q].slug = DefaultBase

\* the step is a call of publish() by session s
PublishStep(s) == last'.op = "publish" /\ last'.session = s

\* the object of session s has a row in the store
Stored(s) == inst[s].pk \in DOMAIN products

\* C3: publish() on a stored product whose status is draft leaves the object
\* and its row with status published and the same non-null published_at;
\* publish() on a product it has published changes neither the object nor
\* the store, however far the clock has moved.
C3_PublishStampsOnce ==
    [][\A s \in Sessions :
         PublishStep(s) =>
            /\ (inst[s].status = DRAFT /\ Stored(s)) =>
                 /\ last'.result = "ok"
                 /\ inst'[s].status = PUBLISHED
                 /\ inst'[s].published_at # NULL
                 /\ products'[inst[s].pk].status = PUBLISHED
                 /\ products'[inst[s].pk].published_at = inst'[s].published_at
            /\ inst[s].status = PUBLISHED =>
                 /\ inst'[s] = inst[s]
                 /\ storeVars' = storeVars]_vars

\* publish() was called again, later, on a product published at time 1 and
\* still published: the object and the row keep that time
C3_Witness ==
    LET me == inst[MainSession]
    IN  /\ last.op = "publish" /\ last.result = "noop"
        /\ now = 2
        /\ me.pk \in DOMAIN products
        /\ me.status = PUBLISHED /\ me.published_at = 1
        /\ products[me.pk].status = PUBLISHED
        /\ products[me.pk].published_at = 1

\* C9: once an object's published_at is set, no call of publish() or save()
\* changes it, whatever status the object was given in between; and once a
\* row's published_at is set, no such call changes it while the row is stored.
C9_FirstPublishWins ==
    [][\A s \in Sessions :
         (PublishStep(s) \/ SaveStep(s)) =>
            /\ inst[s].published_at # NULL =>
                 inst'[s].published_at = inst[s].published_at
            /\ \A p \in DOMAIN products \cap DOMAIN products' :
                 products[p].published_at # NULL =>
                     products'[p].published_at = products[p].published_at]_vars

\* a product stamped at time 1 and since given another status was published
\* again at time 2, and the object and the row still carry time 1
C9_Witness ==
    LET me == inst[MainSession]
    IN  /\ last.op = "publish" /\ last.result = "ok"
        /\ last.was \in {DRAFT, ARCHIVED}
        /\ now = 2
        /\ me.published_at = 1
        /\ products[me.pk].status = PUBLISHED
        /\ products[me.pk].published_at = 1

\* C10 as stated: publish() never moves a product whose status is archived to
\* published, in the object or in its row.
C10_ArchivedStaysArchived ==
    [][\A s \in Sessions :
         (PublishStep(s) /\ inst[s].status = ARCHIVED) =>
            /\ inst'[s].status # PUBLISHED
            /\ Stored(s) => products'[inst[s].pk].status # PUBLISHED]_vars

\* C10 amended: publish() moves an object of any other status, archived as
\* well as draft, to published, and its row with it when it has one, and
\* leaves an object that is published, and the store, as they are; no call of
\* publish() moves a product out of published.
C10_PublishFromAnyStatus ==
    [][\A s \in Sessions :
         PublishStep(s) =>
            /\ inst'[s].status = PUBLISHED
            /\ (Stored(s) /\ inst[s].status # PUBLISHED) =>
                 products'[inst[s].pk].status = PUBLISHED
            /\ inst[s].status = PUBLISHED =>
                 (inst'[s] = inst[s] /\ storeVars' = storeVars)]_vars

\* an archived product was published
C10_Witness ==
    LET me == inst[MainSession]
    IN  /\ last.op = "publish" /\ last.result = "ok"
        /\ last.was = ARCHIVED
        /\ me.status = PUBLISHED
        /\ products[me.pk].status = PUBLISHED

\* category c is the parent of a stored category or the category of a stored
\* product
Referenced(c, cats, tbl) ==
    \/ \E d \in DOMAIN cats : cats[d].parent = c
    \/ \E q \in DOMAIN tbl : tbl[q].category = c

\* every parent and every category referred to is stored
ReferencesStored(cats, tbl) ==
    /\ \A d \in DOMAIN cats :
         cats[d].parent # NULL => cats[d].parent \in DOMAIN cats
    /\ \A q \in DOMAIN tbl :
         tbl[q].category # NULL => tbl[q].category \in DOMAIN cats

\* C4: delete() of a category that is the parent of a stored category or the
\* category of a stored product ends in ProtectedError and removes nothing;
\* and no step leaves a Category.parent or a Product.category that is not
\* null and not stored.
C4_CategoryProtected ==
    [][/\ last'.op = "delete_category" =>
            (Referenced(last'.arg[1], categories, products) =>
                (last'.result = "ProtectedError" /\ storeVars' = storeVars))
       /\ ReferencesStored(categories', products')]_vars

\* the delete of a category with a child and a product was refused
C4_Witness ==
    /\ last.op = "delete_category" /\ last.result = "ProtectedError"
    /\ \E d \in DOMAIN categories : categories[d].parent = last.arg[1]
    /\ \E q \in DOMAIN products : products[q].category = last.arg[1]

ProductTagsSound(tbl) ==
    /\ \A r \in DOMAIN tbl : tbl[r].weight >= 1
    /\ \A r, x \in DOMAIN tbl :
         (tbl[r].product = tbl[x].product /\ tbl[r].tag = tbl[x].tag) => r = x

\* C5: the insert of a ProductTag with weight 0, or with the product and tag
\* of a stored ProductTag, ends in IntegrityError with the store as it was;
\* and no step leaves a ProductTag with weight below 1 or two ProductTags
\* with the same product and tag.
C5_ProductTagConstraints ==
    [][/\ last'.op = "insert_product_tag" =>
            ((\/ last'.arg[3] = 0
              \/ \E r \in DOMAIN productTags :
                   /\ productTags[r].product = last'.arg[1]
                   /\ productTags[r].tag = last'.arg[2]) =>
                (last'.result = "IntegrityError" /\ storeVars' = storeVars))
       /\ ProductTagsSound(productTags')]_vars

\* the insert of a second ProductTag for a stored pair, with a weight of 1,
\* was refused
C5_Witness ==
    /\ last.op = "insert_product_tag" /\ last.result = "IntegrityError"
    /\ last.arg[3] >= 1
    /\ last.arg[1] \in DOMAIN products
    /\ last.arg[2] \in tags
    /\ \E r \in DOMAIN productTags :
         /\ productTags[r].product = last.arg[1]
         /\ productTags[r].tag = last.arg[2]

NoTwoActiveSameSlug(tbl) ==
    \A p, q \in DOMAIN tbl :
        (p # q /\ tbl[p].is_active /\ tbl[q].is_active) =>
            Lower(tbl[p].slug) # Lower(tbl[q].slug)

\* C6: however the queries and writes of two save() calls interleave, the
\* write of an active product whose slug another stored active product has
\* ends in IntegrityError with the store as it was, and no step leaves two
\* stored active products with the same slug.
C6_RaceEndsInViolation ==
    [][/\ \A s \in Sessions :
            (SaveStep(s) /\ SlugClash(inst[s], inst[s].pk, products)) =>
                (last'.result = "IntegrityError" /\ storeVars' = storeVars)
       /\ NoTwoActiveSameSlug(products')]_vars

\* two new active products with different names were given the same slug, each
\* by a query that found it free; one is stored and the other was refused
C6_Witness ==
    \E s, t \in Sessions :
        /\ s # t
        /\ last.op = "save" /\ last.result = "IntegrityError"
        /\ last.session = t /\ last.derived
        /\ inst[t].pk = NULL /\ inst[t].is_active
        /\ inst[s].pk \in DOMAIN products
        /\ products[inst[s].pk].is_active
        /\ products[inst[s].pk].slug = inst[t].slug
        /\ inst[t].slug # Blank
        /\ Lower(products[inst[s].pk].name) # Lower(inst[t].name)

====
